---------------------------- MODULE Spec2Model ----------------------------
(***************************************************************************)
(* State-machine model of the GPS dispatch tracking routes                 *)
(* (routes/gps_tracking.py), the offline sync queue (utils/offline_sync.py)*)
(* and the geofence notification fan-out (services/notification_service.py)*)
(* of the relishagro backend.                                              *)
(*                                                                         *)
(* Tables are bags of rows (a row's primary key is a fresh uuid4, so two   *)
(* rows with the same column values are two rows).  Floats are modelled by *)
(* the values the sampled coordinates produce; see calculate_distance_km.  *)
(***************************************************************************)
EXTENDS Integers, Naturals, Sequences, FiniteSets, Bags, TLC

\* ------------------------------------------------------------------ bounds
\* Largest number of gps_tracking_logs rows the model lets the table hold.
MaxLogs == 2
\* Largest number of records in one offline batch.
MaxBatch == 2
\* Largest number of records in one attendance batch.
MaxAttBatch == 2
\* Largest number of attendance_logs rows.
MaxAttRows == 2
\* Largest number of ids in target_users.
MaxTargets == 1
\* Largest number of notifications rows written by system notifications.
MaxNotifications == 3
\* Largest number of connections open at once.
MaxConnections == 2

\* ------------------------------------------------------- person directory
\* Sample person_records rows: id -> person_type, status, contact_number set?
PersonIds == {"drvA", "drvB", "hfm", "fcm", "adm"}

person_records ==
  [p \in PersonIds |->
     CASE p = "drvA" -> [person_type |-> "driver", status |-> "active", contact_number |-> TRUE]
       [] p = "drvB" -> [person_type |-> "driver", status |-> "active", contact_number |-> TRUE]
       [] p = "hfm"  -> [person_type |-> "harvestflow_manager", status |-> "active", contact_number |-> TRUE]
       [] p = "fcm"  -> [person_type |-> "flavorcore_manager", status |-> "active", contact_number |-> FALSE]
       [] p = "adm"  -> [person_type |-> "admin", status |-> "inactive", contact_number |-> TRUE]]

\* Callers: the two drivers, two managers, and a token whose staff_id matches
\* no row.
Actors == {"drvA", "drvB", "hfm", "fcm", "ghost"}

\* JWT role -> database person_type
ROLE_MAPPING ==
  [r \in {"Admin", "HarvestFlow", "FlavorCore", "Supervisor", "Worker", "Vendor", "Driver"} |->
     CASE r = "Admin" -> "admin"
       [] r = "HarvestFlow" -> "harvestflow_manager"
       [] r = "FlavorCore" -> "flavorcore_manager"
       [] r = "Supervisor" -> "flavorcore_supervisor"
       [] r = "Worker" -> "worker"
       [] r = "Vendor" -> "vendor"
       [] r = "Driver" -> "driver"]

\* get_current_user: the row whose staff_id is the token's subject, if any.
get_current_user(actor) == IF actor \in PersonIds THEN {actor} ELSE {}

\* require_role: normalise the allowed roles, then test the user's person_type.
\* (The route lists of this model are already lower-case person_types, on
\* which role.lower() is the identity.)
require_role(allowed_roles, current_user) ==
  LET normalized_allowed_roles ==
        {IF role \in DOMAIN ROLE_MAPPING THEN ROLE_MAPPING[role] ELSE role : role \in allowed_roles}
  IN person_records[current_user].person_type \in normalized_allowed_roles

\* HTTP status of the dependency chain get_current_user -> role_checker:
\* 401 when no user, 403 when the role is not allowed, 200 when it passes.
AuthStatus(allowed_roles, actor) ==
  IF get_current_user(actor) = {} THEN 401
  ELSE IF ~require_role(allowed_roles, actor) THEN 403
  ELSE 200

\* ------------------------------------------------------------- dispatches
\* Dispatch rows on file (created outside the reviewed routes) and their
\* immutable driver_id.
DispatchIds == {"D1"}
driver_of == [d \in DispatchIds |-> "drvA"]

\* dispatch_id path/form values a caller can send: the ids on file, a
\* well-formed uuid of no row, and a string uuid.UUID() rejects.
ReqDispatchIds == DispatchIds \cup {"Dx", "not-a-uuid"}
WellFormedUUID(s) == s # "not-a-uuid"

\* ------------------------------------------------------------ coordinates
\* Settings (config.py)
FARM_LATITUDE == "8.430153784606453"
FARM_LONGITUDE == "77.42507404406288"
PROCESSING_UNIT_LATITUDE == "8.097457521754535"
PROCESSING_UNIT_LONGITUDE == "77.550169800994"
GPS_GEOFENCE_RADIUS_KM == 5

\* Sampled pings (latitude, longitude as the decimal strings of the floats):
\*   on the farm circle: calculate_distance_km(., farm) = 5.0 exactly
\*   at the processing unit
\*   far from both (the spec's 9.00, 78.00)
\*   a NaN latitude (float("nan") is a valid value of a float form field)
Positions ==
  { [latitude |-> "8.472177575631878", longitude |-> "77.4089"],
    [latitude |-> PROCESSING_UNIT_LATITUDE, longitude |-> PROCESSING_UNIT_LONGITUDE],
    [latitude |-> "9.0", longitude |-> "78.0"],
    [latitude |-> "nan", longitude |-> "77.4089"] }

\* A float result: NaN, or a number of kilometres.
NaNFloat == [nan |-> TRUE, km |-> 0]
Km(n) == [nan |-> FALSE, km |-> n]

\* Python float comparisons: every comparison with NaN is False.
FloatGt(x, r) == ~x.nan /\ x.km > r
FloatLe(x, r) == ~x.nan /\ x.km <= r

\* Haversine distance.  The trigonometry is evaluated on the sampled
\* coordinates (values of the source function, rounded to the kilometre;
\* none of the samples is within 0.5 km of the radius except the one whose
\* distance is exactly 5.0):
\*   (8.472177575631878, 77.4089) -> farm 5.0      , unit 44.472...
\*   processing unit              -> farm 39.472...,  unit 0.0
\*   (9.0, 78.0)                  -> farm 89.487...,  unit 111.885...
\*   nan latitude                 -> nan (radians, sin, cos, sqrt, atan2 all
\*                                   propagate NaN without raising)
calculate_distance_km(lat1, lon1, lat2, lon2) ==
  IF lat1 = "nan" \/ lon1 = "nan" \/ lat2 = "nan" \/ lon2 = "nan" THEN NaNFloat
  ELSE IF lat1 = lat2 /\ lon1 = lon2 THEN Km(0)
  ELSE LET toFarm == lat2 = FARM_LATITUDE /\ lon2 = FARM_LONGITUDE IN
       CASE lat1 = "8.472177575631878" -> IF toFarm THEN Km(5) ELSE Km(44)
         [] lat1 = PROCESSING_UNIT_LATITUDE -> IF toFarm THEN Km(39) ELSE Km(0)
         [] lat1 = "9.0" -> IF toFarm THEN Km(89) ELSE Km(112)


\* ------------------------------------------------------------------ state
VARIABLES
  dispatches,      \* dispatch_id -> [driver_id, trip_status, gps_tracking_active]
  gps_logs,        \* bag of gps_tracking_logs rows
  geofence_alerts, \* bag of geofence_alerts rows
  notifications,   \* bag of notifications rows
  twilio_client,   \* TRUE iff the Twilio credentials are configured
  attendance_logs, \* bag of attendance_logs rows
  connections,     \* number of database connections acquired and not closed
  provision_requests, \* request id -> provision_requests row
  sync_calls, \* running sync_attendance_batch calls: call -> its session
  onboarding_requests, \* onboarding_requests rows: request id -> [status, mobile]
  onboarding_pending, \* onboarding_pending rows: request id -> [status, entity_type, mobile]
  onboarded_persons, \* person_records rows inserted by the onboarding approvals
  approve_calls, \* running approve_onboarding_request calls: call -> its locals
  checkin_logs, \* attendance_logs rows of today written by the check-in route
  attendance_calls, \* running check-in and check-out requests: call -> its locals
  resp             \* the last request and its HTTP response

\* The state of the handlers that work on a connection of their own.
other_stores == <<connections, provision_requests, sync_calls, onboarding_requests, onboarding_pending, onboarded_persons, approve_calls, checkin_logs, attendance_calls>>

\* What the system notification call and the provision routes leave alone.
frame_notify ==
  <<dispatches, gps_logs, geofence_alerts, twilio_client, attendance_logs,
    provision_requests,
    sync_calls,
    onboarding_requests,
    onboarding_pending,
    onboarded_persons,
    approve_calls,
    checkin_logs,
    attendance_calls>>
frame_provisions ==
  <<dispatches, gps_logs, geofence_alerts, twilio_client, attendance_logs, connections,
    sync_calls,
    onboarding_requests,
    onboarding_pending,
    onboarded_persons,
    approve_calls,
    checkin_logs,
    attendance_calls>>
frame_sync ==
  <<dispatches, gps_logs, geofence_alerts, notifications, twilio_client, connections,
    provision_requests,
    onboarding_requests,
    onboarding_pending,
    onboarded_persons,
    approve_calls,
    checkin_logs,
    attendance_calls>>
frame_onboarding ==
  <<dispatches, gps_logs, geofence_alerts, twilio_client, attendance_logs,
    provision_requests, sync_calls,
    checkin_logs,
    attendance_calls>>
frame_checkin ==
  <<dispatches, gps_logs, geofence_alerts, notifications, twilio_client, attendance_logs,
    provision_requests, sync_calls, onboarding_requests, onboarding_pending,
    onboarded_persons, approve_calls>>

\* The onboarding requests on file, both submitted and undecided: a staff
\* request and a supplier request.
OnboardingRequestsInit ==
  [r \in {"R1"} |-> [status |-> "pending", mobile |-> r]]
OnboardingPendingInit ==
  [r \in {"E1"} |-> [status |-> "pending", entity_type |-> "supplier", mobile |-> r]]

vars == <<dispatches, gps_logs, geofence_alerts, notifications, twilio_client,
          attendance_logs, resp, other_stores>>

\* Column defaults of a new Dispatch row.
NewDispatch(d) ==
  [driver_id |-> driver_of[d], trip_status |-> "pending", gps_tracking_active |-> FALSE]

NoResp == [op |-> "none", actor |-> "none", dispatch_id |-> "none", status |-> 0]

\* A request and the status of its response, plus the fields of its body.
Resp(op, actor, dispatch_id, status) ==
  [op |-> op, actor |-> actor, dispatch_id |-> dispatch_id, status |-> status]

Init ==
  /\ dispatches = [d \in DispatchIds |-> NewDispatch(d)]
  /\ gps_logs = EmptyBag
  /\ geofence_alerts = EmptyBag
  /\ notifications = EmptyBag
  /\ twilio_client \in BOOLEAN
  /\ attendance_logs = EmptyBag
  /\ connections = 0
  /\ provision_requests = <<>>
  /\ sync_calls = <<>>
  /\ onboarding_requests = OnboardingRequestsInit
  /\ onboarding_pending = OnboardingPendingInit
  /\ onboarded_persons = {}
  /\ approve_calls = <<>>
  /\ checkin_logs = {}
  /\ attendance_calls = <<>>
  /\ resp = NoResp

\* ------------------------------------------------------- start-tracking
\* db.query(Dispatch).filter(dispatch_id == ...).first()
QueryDispatch(dispatch_id) ==
  {d \in DOMAIN dispatches : d = dispatch_id}

\* dispatch.gps_tracking_active = True; dispatch.trip_status = "in_transit"
StartedDispatch(dispatch) ==
  [dispatch EXCEPT !.gps_tracking_active = TRUE, !.trip_status = "in_transit"]

start_gps_tracking(actor, dispatch_id) ==
  LET auth == AuthStatus({"driver", "harvestflow_manager"}, actor)
      op == "start_tracking"
  IN /\ IF auth # 200
          THEN /\ resp' = Resp(op, actor, dispatch_id, auth)
               /\ UNCHANGED dispatches
        ELSE IF ~WellFormedUUID(dispatch_id)
          THEN /\ resp' = Resp(op, actor, dispatch_id, 500)
               /\ UNCHANGED dispatches
        ELSE IF QueryDispatch(dispatch_id) = {}
          THEN /\ resp' = Resp(op, actor, dispatch_id, 404)
               /\ UNCHANGED dispatches
        ELSE /\ dispatches' = [dispatches EXCEPT ![dispatch_id] = StartedDispatch(@)]
             /\ resp' = Resp(op, actor, dispatch_id, 200)
     /\ UNCHANGED <<gps_logs, geofence_alerts, notifications, twilio_client,
                    attendance_logs, other_stores>>

\* ------------------------------------------------------------- complete
\* Variant: the driver_id filter is missing.
QueryDispatchToCompleteAnyDriver(dispatch_id, current_user) ==
  {d \in DOMAIN dispatches : d = dispatch_id}

\* db.query(Dispatch).filter(dispatch_id == ..., driver_id == current_user.id)
QueryDispatchToComplete(dispatch_id, current_user) ==
  {d \in DOMAIN dispatches : d = dispatch_id /\ dispatches[d].driver_id = current_user}

\* Variant: the tracking flag is not cleared on delivery.
DeliveredDispatchKeepsTracking(dispatch) ==
  [dispatch EXCEPT !.trip_status = "delivered"]

\* dispatch.trip_status = "delivered"; dispatch.gps_tracking_active = False
DeliveredDispatch(dispatch) ==
  [dispatch EXCEPT !.trip_status = "delivered", !.gps_tracking_active = FALSE]

complete_dispatch(actor, dispatch_id) ==
  LET auth == AuthStatus({"driver"}, actor)
      op == "complete"
  IN /\ IF auth # 200
          THEN /\ resp' = Resp(op, actor, dispatch_id, auth)
               /\ UNCHANGED dispatches
        ELSE IF ~WellFormedUUID(dispatch_id)
          THEN /\ resp' = Resp(op, actor, dispatch_id, 500)
               /\ UNCHANGED dispatches
        ELSE IF QueryDispatchToComplete(dispatch_id, actor) = {}
          THEN /\ resp' = Resp(op, actor, dispatch_id, 404)
               /\ UNCHANGED dispatches
        ELSE /\ dispatches' = [dispatches EXCEPT ![dispatch_id] = DeliveredDispatch(@)]
             /\ resp' = Resp(op, actor, dispatch_id, 200)
     /\ UNCHANGED <<gps_logs, geofence_alerts, notifications, twilio_client,
                    attendance_logs, other_stores>>

\* --------------------------------------------------------- notifications
\* Variant: the flag is set before the send, so a raising send leaves it set.
create_notification_flag_before_send(recipient_id, notification_type, send_sms, sms_raises) ==
  [recipient_id |-> recipient_id,
   notification_type |-> notification_type,
   sent_via_sms |-> /\ recipient_id \in PersonIds
                    /\ person_records[recipient_id].contact_number
                    /\ send_sms /\ twilio_client]

\* create_notification: the row is added and committed; the SMS is sent only
\* when requested, a Twilio client exists and the recipient has a contact
\* number; sent_via_sms is set when _send_sms did not raise.
create_notification(recipient_id, notification_type, send_sms, sms_raises) ==
  [recipient_id |-> recipient_id,
   notification_type |-> notification_type,
   sent_via_sms |-> /\ recipient_id \in PersonIds
                    /\ person_records[recipient_id].contact_number
                    /\ send_sms /\ twilio_client
                    /\ ~sms_raises]

\* notify_geofence_alert: one create_notification per manager, send_sms=True.
\* failing is the set of recipients whose SMS send raises.
notify_geofence_alert(managers, failing) ==
  LET row(m) == create_notification(m, "geofence_alert", TRUE, m \in failing)
  IN [r \in {row(m) : m \in managers} |-> 1]

\* ---------------------------------------------------------- log-location
\* Variant: the driver_id filter is missing.
QueryDispatchToLogAnyDriver(dispatch_id, current_user) ==
  {d \in DOMAIN dispatches : d = dispatch_id}

\* db.query(Dispatch).filter(dispatch_id == ..., driver_id == current_user.id)
QueryDispatchToLog(dispatch_id, current_user) ==
  {d \in DOMAIN dispatches : d = dispatch_id /\ dispatches[d].driver_id = current_user}

\* GPSTrackingLog(...) of a live ping: is_offline_queued and synced_at keep
\* their column defaults.
LiveLog(dispatch_id, pos) ==
  [dispatch_id |-> dispatch_id, latitude |-> pos.latitude, longitude |-> pos.longitude,
   is_offline_queued |-> FALSE, synced_at |-> FALSE]

dist_from_farm(pos) ==
  calculate_distance_km(pos.latitude, pos.longitude, FARM_LATITUDE, FARM_LONGITUDE)

dist_from_processing(pos) ==
  calculate_distance_km(pos.latitude, pos.longitude,
                        PROCESSING_UNIT_LATITUDE, PROCESSING_UNIT_LONGITUDE)

\* The condition of the alert branch.
OutsideGeofence(pos) ==
  /\ FloatGt(dist_from_farm(pos), GPS_GEOFENCE_RADIUS_KM)
  /\ FloatGt(dist_from_processing(pos), GPS_GEOFENCE_RADIUS_KM)

\* The geofence_status of the response body.
GeofenceStatus(pos) ==
  IF \/ FloatLe(dist_from_farm(pos), GPS_GEOFENCE_RADIUS_KM)
     \/ FloatLe(dist_from_processing(pos), GPS_GEOFENCE_RADIUS_KM)
  THEN "inside" ELSE "outside"

\* GeofenceAlert(...)
RouteDeviationAlert(dispatch_id, pos) ==
  [dispatch_id |-> dispatch_id, alert_type |-> "route_deviation",
   latitude |-> pos.latitude, longitude |-> pos.longitude]

\* The recipients an SMS send can fail for: those with a contact number.
Reachable(recipients) ==
  {p \in recipients : person_records[p].contact_number}

\* Variant: the status filter is missing.
ActiveManagersAnyStatus ==
  {p \in PersonIds :
     person_records[p].person_type \in {"harvestflow_manager", "flavorcore_manager", "admin"}}

\* PersonRecord rows with a manager person_type and status active.
ActiveManagers ==
  {p \in PersonIds :
     /\ person_records[p].person_type \in {"harvestflow_manager", "flavorcore_manager", "admin"}
     /\ person_records[p].status = "active"}

\* What the database does to the commits of one request: every commit goes
\* through, or one raises after the notifications of `committed` (the
\* managers the loop had finished, in the order the query returned them)
\* were committed.
NoFault == [fails |-> FALSE, committed |-> {}]
DbFaults ==
  {NoFault} \cup {[fails |-> TRUE, committed |-> S] : S \in SUBSET ActiveManagers}

\* The faults that differ for a ping: an inside ping has one commit only.
DbFaultsOf(pos) ==
  IF OutsideGeofence(pos) THEN DbFaults
  ELSE {NoFault, [fails |-> TRUE, committed |-> {}]}

\* The sets of recipients whose SMS send raises: an inside ping sends none.
SmsFailuresOf(pos) ==
  IF OutsideGeofence(pos) THEN SUBSET Reachable(ActiveManagers) ELSE {{}}

\* The managers whose create_notification ran to its db.commit().
NotifiedManagers(outside, db_fault) ==
  IF ~outside THEN {}
  ELSE IF db_fault.fails THEN db_fault.committed
  ELSE ActiveManagers

\* The session's pending rows (log, alert, notification) reach storage with
\* the first commit that succeeds: the one inside the first
\* create_notification, or the handler's final db.commit().
SomeCommitSucceeded(outside, db_fault) ==
  ~db_fault.fails \/ NotifiedManagers(outside, db_fault) # {}

log_gps_location(actor, dispatch_id, pos, failing, db_fault) ==
  LET auth == AuthStatus({"driver"}, actor)
      op == "log_location"
      frame == UNCHANGED <<gps_logs, geofence_alerts, notifications>>
      outside == OutsideGeofence(pos)
  IN /\ IF auth # 200
          THEN resp' = Resp(op, actor, dispatch_id, auth) /\ frame
        ELSE IF ~WellFormedUUID(dispatch_id)
          THEN resp' = Resp(op, actor, dispatch_id, 500) /\ frame
        ELSE IF QueryDispatchToLog(dispatch_id, actor) = {}
          THEN resp' = Resp(op, actor, dispatch_id, 404) /\ frame
        ELSE /\ BagCardinality(gps_logs) < MaxLogs
             /\ IF SomeCommitSucceeded(outside, db_fault)
                  THEN /\ gps_logs' = gps_logs (+) SetToBag({LiveLog(dispatch_id, pos)})
                       /\ IF outside
                            THEN /\ geofence_alerts' =
                                      geofence_alerts
                                        (+) SetToBag({RouteDeviationAlert(dispatch_id, pos)})
                                 /\ notifications' =
                                      notifications
                                        (+) notify_geofence_alert(
                                              NotifiedManagers(outside, db_fault), failing)
                            ELSE UNCHANGED <<geofence_alerts, notifications>>
                  ELSE frame
             /\ resp' = IF db_fault.fails
                          THEN Resp(op, actor, dispatch_id, 500)
                          ELSE Resp(op, actor, dispatch_id, 200) @@
                               [success |-> TRUE, latitude |-> pos.latitude,
                                longitude |-> pos.longitude,
                                geofence_status |-> GeofenceStatus(pos),
                                sms_raised |-> IF outside /\ twilio_client
                                                 THEN failing ELSE {}]
     /\ UNCHANGED <<dispatches, twilio_client, attendance_logs, other_stores>>


\* ------------------------------------------------------------ sync-batch
\* datetime.fromisoformat on the timestamp strings of buffered records: the
\* hour of 2025-01-01 it denotes. "T" and " " separate date and time alike;
\* any other string ("yesterday") raises ValueError.
fromisoformat ==
  [ts \in {"2025-01-01T10:00:00", "2025-01-01 10:00:00"} |-> 10]

fromisoformat_ok(ts) == ts \in DOMAIN fromisoformat

\* The locations a device can buffer, and the batches it uploads.
GPSLocation ==
  { [latitude |-> "9.0", longitude |-> "78.0", timestamp |-> "2025-01-01T10:00:00"],
    [latitude |-> "9.0", longitude |-> "78.0", timestamp |-> "yesterday"] }

Batches == UNION {[1..n -> GPSLocation] : n \in 0..MaxBatch}

\* Variant: the row is not marked as queued offline.
OfflineLogAsLive(dispatch_id, record) ==
  [dispatch_id |-> dispatch_id, latitude |-> record.latitude, longitude |-> record.longitude,
   is_offline_queued |-> FALSE, synced_at |-> TRUE]

\* GPSTrackingLog(...) of a buffered record.
OfflineLog(dispatch_id, record) ==
  [dispatch_id |-> dispatch_id, latitude |-> record.latitude, longitude |-> record.longitude,
   is_offline_queued |-> TRUE, synced_at |-> TRUE]

\* The loop of OfflineSyncQueue.sync_gps_batch: the rows added to the session
\* (a record whose row cannot be built is printed and skipped).
RECURSIVE GpsBatchRows(_, _)
GpsBatchRows(gps_records, dispatch_id) ==
  IF gps_records = <<>> THEN EmptyBag
  ELSE LET record == Head(gps_records)
           rest == GpsBatchRows(Tail(gps_records), dispatch_id)
       IN IF fromisoformat_ok(record.timestamp)
            THEN SetToBag({OfflineLog(dispatch_id, record)}) (+) rest
            ELSE rest

\* db.commit() of the added rows: gps_tracking_logs.dispatch_id references
\* dispatches.dispatch_id, so a row of an unknown dispatch fails the commit.
GpsCommitFails(rows, dispatch_id) ==
  rows # EmptyBag /\ dispatch_id \notin DOMAIN dispatches

OfflineSyncQueue_sync_gps_batch(gps_records, dispatch_id) ==
  LET rows == GpsBatchRows(gps_records, dispatch_id)
      synced_count == BagCardinality(rows)
  IN IF GpsCommitFails(rows, dispatch_id)
       THEN [success |-> FALSE, synced_count |-> -1, rows |-> EmptyBag]
       ELSE [success |-> TRUE, synced_count |-> synced_count, rows |-> rows]

\* Variant: the synced positions are run through the geofence evaluation.
sync_gps_batch_with_geofence(actor, dispatch_id, locations) ==
  LET auth == AuthStatus({"driver"}, actor)
      op == "sync_batch"
  IN IF auth # 200
       THEN /\ resp' = Resp(op, actor, dispatch_id, auth)
            /\ UNCHANGED <<dispatches, gps_logs, geofence_alerts, notifications,
                           twilio_client, attendance_logs, other_stores>>
     ELSE IF ~WellFormedUUID(dispatch_id)
       THEN /\ resp' = Resp(op, actor, dispatch_id, 500)
            /\ UNCHANGED <<dispatches, gps_logs, geofence_alerts, notifications,
                           twilio_client, attendance_logs, other_stores>>
     ELSE LET result == OfflineSyncQueue_sync_gps_batch(locations, dispatch_id)
          IN /\ BagCardinality(gps_logs) + BagCardinality(result.rows) <= MaxLogs
             /\ gps_logs' = gps_logs (+) result.rows
             /\ geofence_alerts' =
                  geofence_alerts (+)
                    SetToBag({RouteDeviationAlert(dispatch_id, row) :
                                row \in {r \in BagToSet(result.rows) : OutsideGeofence(r)}})
             /\ resp' = Resp(op, actor, dispatch_id, 200) @@
                        [success |-> result.success,
                         synced_count |-> result.synced_count,
                         locations |-> locations]
             /\ UNCHANGED <<dispatches, notifications, twilio_client, attendance_logs, other_stores>>

sync_gps_batch(actor, dispatch_id, locations) ==
  LET auth == AuthStatus({"driver"}, actor)
      op == "sync_batch"
  IN /\ IF auth # 200
          THEN resp' = Resp(op, actor, dispatch_id, auth) /\ UNCHANGED gps_logs
        ELSE IF ~WellFormedUUID(dispatch_id)
          THEN resp' = Resp(op, actor, dispatch_id, 500) /\ UNCHANGED gps_logs
        ELSE LET result == OfflineSyncQueue_sync_gps_batch(locations, dispatch_id)
             IN /\ BagCardinality(gps_logs) + BagCardinality(result.rows) <= MaxLogs
                /\ gps_logs' = gps_logs (+) result.rows
                /\ resp' = Resp(op, actor, dispatch_id, 200) @@
                           [success |-> result.success,
                            synced_count |-> result.synced_count,
                            locations |-> locations]
     /\ UNCHANGED <<dispatches, geofence_alerts, notifications, twilio_client,
                    attendance_logs, other_stores>>

\* ------------------------------------------------------ attendance sync
\* The attendance records a device can buffer: two spellings of the same
\* instant for drvA, one for drvB, one with a malformed person_id and one
\* whose person_id is a well-formed UUID of no person.
AttendanceRecords ==
  { [person_id |-> "drvA", timestamp |-> "2025-01-01T10:00:00"],
    [person_id |-> "drvA", timestamp |-> "2025-01-01 10:00:00"],
    [person_id |-> "drvB", timestamp |-> "2025-01-01T10:00:00"],
    [person_id |-> "not-a-uuid", timestamp |-> "2025-01-01T10:00:00"],
    [person_id |-> "ghost", timestamp |-> "2025-01-01T10:00:00"] }

AttendanceBatches == UNION {[1..n -> AttendanceRecords] : n \in 0..MaxAttBatch}

DeviceIds == {"dev1", "dev2"}

\* AttendanceLog(...) of a buffered record.
AttendanceLog(record, device_id) ==
  [person_id |-> record.person_id,
   timestamp |-> fromisoformat[record.timestamp],
   device_id |-> device_id]

\* Variant: a record of an unknown person raises in the loop as well.
RecordRaisesOnUnknownPerson(record) ==
  record.person_id \notin PersonIds \/ ~fromisoformat_ok(record.timestamp)

\* uuid.UUID(record["person_id"]) or datetime.fromisoformat raises.
RecordRaises(record) ==
  ~WellFormedUUID(record.person_id) \/ ~fromisoformat_ok(record.timestamp)

\* Variant: the duplicate check is missing.
ExistingAttendanceUnchecked(record, device_id) == FALSE

\* The duplicate query. The session does not autoflush, so the query reads
\* the stored rows only, not the rows added earlier in the same batch.
ExistingAttendance(record, device_id) ==
  BagIn(AttendanceLog(record, device_id), attendance_logs)

\* The loop of OfflineSyncQueue.sync_attendance_batch: the rows added to the
\* session, synced_count and failed_records.
RECURSIVE AttendanceLoop(_, _)
AttendanceLoop(attendance_records, device_id) ==
  IF attendance_records = <<>>
    THEN [pending |-> EmptyBag, synced_count |-> 0, failed_records |-> <<>>]
  ELSE LET record == Head(attendance_records)
           rest == AttendanceLoop(Tail(attendance_records), device_id)
       IN IF RecordRaises(record)
            THEN [rest EXCEPT !.failed_records =
                    <<[record |-> record,
                       error |-> "badly formed hexadecimal UUID string"]>> \o @]
          ELSE IF ExistingAttendance(record, device_id)
            THEN rest
          ELSE [rest EXCEPT !.pending = SetToBag({AttendanceLog(record, device_id)}) (+) @,
                            !.synced_count = @ + 1]

\* Variant: the foreign key is not enforced.
AttendanceCommitNeverFails(pending) == FALSE

\* db.commit() of the added rows: attendance_logs.person_id references
\* person_records.id, so a row of an unknown person fails the commit.
AttendanceCommitFails(pending) ==
  \E row \in BagToSet(pending) : row.person_id \notin PersonIds

\* Variant: a failed record aborts the batch.
OfflineSyncQueue_sync_attendance_batch_all_or_nothing(attendance_records, device_id) ==
  LET loop == AttendanceLoop(attendance_records, device_id)
  IN IF AttendanceCommitFails(loop.pending) \/ loop.failed_records # <<>>
       THEN [success |-> FALSE, error |-> "IntegrityError", synced_count |-> 0,
             rows |-> EmptyBag]
       ELSE [success |-> TRUE, synced_count |-> loop.synced_count,
             failed_count |-> Len(loop.failed_records),
             failed_records |-> loop.failed_records, rows |-> loop.pending]

\* OfflineSyncQueue.sync_attendance_batch: its result, and in rows what the
\* commit stored (nothing after the rollback).
OfflineSyncQueue_sync_attendance_batch(attendance_records, device_id) ==
  LET loop == AttendanceLoop(attendance_records, device_id)
  IN IF AttendanceCommitFails(loop.pending)
       THEN [success |-> FALSE, error |-> "IntegrityError", synced_count |-> 0,
             rows |-> EmptyBag]
       ELSE [success |-> TRUE, synced_count |-> loop.synced_count,
             failed_count |-> Len(loop.failed_records),
             failed_records |-> loop.failed_records, rows |-> loop.pending]

\* One call of OfflineSyncQueue.sync_attendance_batch on the session.
sync_attendance_batch(attendance_records, device_id) ==
  \E result \in {OfflineSyncQueue_sync_attendance_batch(attendance_records, device_id)} :
     /\ BagCardinality(attendance_logs) + BagCardinality(result.rows) <= MaxAttRows
     /\ attendance_logs' = attendance_logs (+) result.rows
     /\ resp' = [op |-> "sync_attendance", actor |-> "none", dispatch_id |-> "none",
                 status |-> 0, attendance_records |-> attendance_records,
                 device_id |-> device_id,
                 result |-> [f \in DOMAIN result \ {"rows"} |-> result[f]]]
     /\ UNCHANGED <<dispatches, gps_logs, geofence_alerts, notifications, twilio_client,
                    other_stores>>

\* ------------------------------------------- concurrent attendance sync
\* Calls of sync_attendance_batch that run at the same time, each on a
\* session of its own. The database runs a session's statements in one
\* READ COMMITTED transaction: every duplicate query reads what is committed
\* when it runs, the added rows become visible to others at the commit.
MaxSyncCalls == 2
MaxSyncBatch == 1
SyncCallIds == 1..MaxSyncCalls
SyncBatches == UNION {[1..n -> AttendanceRecords] : n \in 0..MaxSyncBatch}

\* The call starts: nothing added to its session yet.
sync_attendance_batch_start(call, attendance_records, device_id) ==
  /\ call \notin DOMAIN sync_calls
  /\ sync_calls' =
       [c \in DOMAIN sync_calls \cup {call} |->
          IF c = call
            THEN [attendance_records |-> attendance_records, device_id |-> device_id,
                  todo |-> attendance_records, pending |-> EmptyBag,
                  synced_count |-> 0, failed_records |-> <<>>]
            ELSE sync_calls[c]]
  /\ UNCHANGED <<attendance_logs, resp>>

\* One iteration of the loop: the next record is checked against the
\* committed rows and added to the session.
sync_attendance_batch_record(call) ==
  /\ call \in DOMAIN sync_calls
  /\ sync_calls[call].todo # <<>>
  /\ \E step \in {AttendanceLoop(<<Head(sync_calls[call].todo)>>,
                                  sync_calls[call].device_id)} :
       sync_calls' =
         [sync_calls EXCEPT ![call] =
            [@ EXCEPT !.todo = Tail(@),
                      !.pending = @ (+) step.pending,
                      !.synced_count = @ + step.synced_count,
                      !.failed_records = @ \o step.failed_records]]
  /\ UNCHANGED <<attendance_logs, resp>>

\* db.commit() and the return of the call.
sync_attendance_batch_commit(call) ==
  /\ call \in DOMAIN sync_calls
  /\ sync_calls[call].todo = <<>>
  /\ LET session == sync_calls[call]
         fails == AttendanceCommitFails(session.pending)
         rows == IF fails THEN EmptyBag ELSE session.pending
     IN /\ BagCardinality(attendance_logs) + BagCardinality(rows) <= MaxAttRows
        /\ attendance_logs' = attendance_logs (+) rows
        /\ resp' = [op |-> "sync_attendance", actor |-> "none", dispatch_id |-> "none",
                    status |-> 0, attendance_records |-> session.attendance_records,
                    device_id |-> session.device_id,
                    result |->
                      IF fails
                        THEN [success |-> FALSE, error |-> "IntegrityError",
                              synced_count |-> 0]
                        ELSE [success |-> TRUE, synced_count |-> session.synced_count,
                              failed_count |-> Len(session.failed_records),
                              failed_records |-> session.failed_records]]
  /\ sync_calls' = [c \in DOMAIN sync_calls \ {call} |-> sync_calls[c]]

\* -------------------------------------------------- system notifications
\* get_db_connection as the handlers use it: the awaited call hands out a
\* connection that runs each statement in its own transaction and stays open
\* until conn.close().
get_db_connection(open) == open + 1
conn_close(open) == open - 1

\* Id strings a caller can pass: the canonical spelling of a person's id, the
\* upper-case spelling of the same id, and a string that is no UUID.
TargetUserIds == {"hfm", "HFM", "not-a-uuid"}
TargetUserLists == UNION {[1..n -> TargetUserIds] : n \in 0..MaxTargets}
TargetRoleLists ==
  { {}, {"harvestflow_manager", "flavorcore_manager", "admin"} }

\* uuid.UUID(user_id): hexadecimal digits are read in either case.
uuid_UUID(user_id) == IF user_id = "HFM" THEN "hfm" ELSE user_id

\* SELECT id FROM person_records WHERE person_type = ANY($1) AND status =
\* 'active', each id formatted with str().
RoleUsers(target_roles) ==
  {p \in PersonIds :
     person_records[p].person_type \in target_roles /\ person_records[p].status = "active"}

\* user_ids after list(set(user_ids)): distinct strings.
ResolveUserIds(target_roles, target_users) ==
  RoleUsers(target_roles) \cup {target_users[i] : i \in 1..Len(target_users)}

\* The INSERT of one recipient raises: uuid.UUID rejects the string, or
\* notifications.recipient_id references no person.
InsertRaises(user_id) ==
  ~WellFormedUUID(user_id) \/ uuid_UUID(user_id) \notin PersonIds

\* The row of INSERT INTO notifications (...) for one recipient.
SystemNotification(user_id) ==
  [recipient_id |-> uuid_UUID(user_id), notification_type |-> "info",
   sent_via_sms |-> FALSE]

\* Variant: an exception of the SMS or WhatsApp send is not caught.
send_external_notifications_uncaught(user_id, send_sms, send_whatsapp, failing) ==
  LET contact == person_records[uuid_UUID(user_id)].contact_number
      sms == contact /\ send_sms /\ twilio_client
      whatsapp == contact /\ send_whatsapp /\ twilio_client
                    /\ ~(sms /\ user_id \in failing)
  IN [sms |-> sms, whatsapp |-> whatsapp,
      failed |-> (sms \/ whatsapp) /\ user_id \in failing,
      raises |-> (sms \/ whatsapp) /\ user_id \in failing]

\* _send_external_notifications: which sends are attempted; a raising send
\* skips the rest of the body and is caught and printed.
send_external_notifications(user_id, send_sms, send_whatsapp, failing) ==
  LET contact == person_records[uuid_UUID(user_id)].contact_number
      sms == contact /\ send_sms /\ twilio_client
      whatsapp == contact /\ send_whatsapp /\ twilio_client
                    /\ ~(sms /\ user_id \in failing)
  IN [sms |-> sms, whatsapp |-> whatsapp,
      failed |-> (sms \/ whatsapp) /\ user_id \in failing,
      raises |-> FALSE]

\* One pass of the for loop ends the call with an exception.
IterationRaises(user_id, send_sms, send_whatsapp, failing) ==
  \/ InsertRaises(user_id)
  \/ /\ send_sms \/ send_whatsapp
     /\ send_external_notifications(user_id, send_sms, send_whatsapp, failing).raises

\* The orders in which the loop can visit a set.
Orders(ids) ==
  {order \in [1..Cardinality(ids) -> ids] :
     \A i, j \in 1..Cardinality(ids) : i # j => order[i] # order[j]}

\* The for loop over user_ids: the rows inserted, the sends attempted (ids,
\* one entry per attempt), the ids whose send failed, and whether the loop
\* ran to its end.
RECURSIVE SystemNotificationLoop(_, _, _, _)
SystemNotificationLoop(order, send_sms, send_whatsapp, failing) ==
  IF order = <<>>
    THEN [rows |-> EmptyBag, attempts |-> EmptyBag, failed |-> {}, completed |-> TRUE]
  ELSE LET user_id == Head(order)
       IN IF InsertRaises(user_id)
            THEN [rows |-> EmptyBag, attempts |-> EmptyBag, failed |-> {},
                  completed |-> FALSE]
          ELSE LET ext == IF send_sms \/ send_whatsapp
                            THEN send_external_notifications(user_id, send_sms,
                                                             send_whatsapp, failing)
                            ELSE [sms |-> FALSE, whatsapp |-> FALSE, failed |-> FALSE,
                                  raises |-> FALSE]
                   sent == (IF ext.sms THEN SetToBag({user_id}) ELSE EmptyBag)
                             (+) (IF ext.whatsapp THEN SetToBag({user_id}) ELSE EmptyBag)
                   rest == IF ext.raises
                             THEN [rows |-> EmptyBag, attempts |-> EmptyBag, failed |-> {},
                                   completed |-> FALSE]
                             ELSE SystemNotificationLoop(Tail(order), send_sms,
                                                         send_whatsapp, failing)
               IN [rows |-> SetToBag({SystemNotification(user_id)}) (+) rest.rows,
                   attempts |-> sent (+) rest.attempts,
                   failed |-> (IF ext.failed THEN {user_id} ELSE {}) \cup rest.failed,
                   completed |-> rest.completed]

\* The visiting orders that differ in their outcome: when no pass can raise,
\* every order inserts the same rows.
OrdersOf(user_ids, send_sms, send_whatsapp, failing) ==
  IF \E u \in user_ids : IterationRaises(u, send_sms, send_whatsapp, failing)
    THEN Orders(user_ids)
    ELSE {CHOOSE order \in Orders(user_ids) : TRUE}

\* The recipients whose Twilio call can raise.
SendFailuresOf(user_ids, send_sms, send_whatsapp) ==
  IF (send_sms \/ send_whatsapp) /\ twilio_client
    THEN SUBSET {u \in user_ids : ~InsertRaises(u)
                                   /\ person_records[uuid_UUID(u)].contact_number}
    ELSE {{}}

\* send_system_notification: conn.close() and return True after the loop;
\* any exception is printed and False is returned.
send_system_notification(target_roles, target_users, send_sms, send_whatsapp, order, failing) ==
  \E loop \in {SystemNotificationLoop(order, send_sms, send_whatsapp, failing)} :
     /\ connections < MaxConnections
     /\ BagCardinality(notifications) + BagCardinality(loop.rows) <= MaxNotifications
     /\ notifications' = notifications (+) loop.rows
     /\ connections' = IF loop.completed
                         THEN conn_close(get_db_connection(connections))
                         ELSE get_db_connection(connections)
     /\ resp' = [op |-> "send_system_notification", actor |-> "none",
                 dispatch_id |-> "none", status |-> 0,
                 target_roles |-> target_roles, target_users |-> target_users,
                 send_sms |-> send_sms, send_whatsapp |-> send_whatsapp,
                 returned |-> loop.completed, attempts |-> loop.attempts,
                 send_failed |-> loop.failed]
     /\ UNCHANGED frame_notify

\* ------------------------------------------------------------- provisions
\* Callers of the provision routes and the ids they can name.
ProvisionActors == {"hfm", "fcm", "adm", "drvA"}
ProvisionIds == {"P1", "P2"}
ReqProvisionIds == ProvisionIds \cup {"Px", "not-a-uuid"}
\* vendor_id of the approval form: absent, a person's id, or no UUID.
VendorIds == {"None", "drvA", "not-a-uuid"}

\* ProvisionRequest(...) of create_provision_request, with column defaults.
NewProvisionRequest(current_user) ==
  [status |-> "pending", requested_by |-> current_user,
   reviewed_by_fc_manager |-> "None", approved_by |-> "None", vendor_id |-> "None"]

\* db.query(ProvisionRequest).filter(id == uuid.UUID(request_id)).first()
QueryProvision(request_id) == {r \in DOMAIN provision_requests : r = request_id}

\* Persons of one person_type with status active.
ActiveOfType(person_type) ==
  {p \in PersonIds :
     person_records[p].person_type = person_type /\ person_records[p].status = "active"}

\* notify_provision_request for each recipient: create_notification with
\* send_sms=True; failing is the set of recipients whose SMS send raises.
notify_provision_request(recipients, failing) ==
  LET row(m) == create_notification(m, "provision_request", TRUE, m \in failing)
  IN [r \in {row(m) : m \in recipients} |-> 1]

SmsFailuresTo(recipients) ==
  IF twilio_client THEN SUBSET Reachable(recipients) ELSE {{}}

create_provision_request(actor, failing) ==
  LET auth == AuthStatus({"harvestflow_manager"}, actor)
      op == "create_provision"
      fc_managers == ActiveOfType("flavorcore_manager")
  IN IF auth # 200
       THEN /\ resp' = Resp(op, actor, "none", auth)
            /\ UNCHANGED <<provision_requests, notifications>>
       ELSE \E id \in ProvisionIds \ DOMAIN provision_requests :
              /\ BagCardinality(notifications) + Cardinality(fc_managers) <= MaxNotifications
              /\ provision_requests' =
                   [r \in DOMAIN provision_requests \cup {id} |->
                      IF r = id THEN NewProvisionRequest(actor) ELSE provision_requests[r]]
              /\ notifications' =
                   notifications (+) notify_provision_request(fc_managers, failing)
              /\ resp' = Resp(op, actor, id, 200)

\* provision.status = "rejected"
RejectedByReview(provision) == [provision EXCEPT !.status = "rejected"]

\* provision.reviewed_by_fc_manager = current_user.id
ForwardedByReview(provision, current_user) ==
  [provision EXCEPT !.reviewed_by_fc_manager = current_user]

review_provision_request(actor, request_id, approved, failing) ==
  LET auth == AuthStatus({"flavorcore_manager"}, actor)
      op == "review_provision"
      admins == ActiveOfType("admin")
      frame == UNCHANGED <<provision_requests, notifications>>
  IN IF auth # 200
       THEN resp' = Resp(op, actor, request_id, auth) /\ frame
     ELSE IF ~WellFormedUUID(request_id)
       THEN resp' = Resp(op, actor, request_id, 500) /\ frame
     ELSE IF QueryProvision(request_id) = {}
       THEN resp' = Resp(op, actor, request_id, 404) /\ frame
     ELSE IF ~approved
       THEN /\ provision_requests' =
                 [provision_requests EXCEPT ![request_id] = RejectedByReview(@)]
            /\ UNCHANGED notifications
            /\ resp' = Resp(op, actor, request_id, 200) @@ [approved |-> approved]
     ELSE /\ BagCardinality(notifications) + Cardinality(admins) <= MaxNotifications
          /\ provision_requests' =
               [provision_requests EXCEPT ![request_id] = ForwardedByReview(@, actor)]
          /\ notifications' = notifications (+) notify_provision_request(admins, failing)
          /\ resp' = Resp(op, actor, request_id, 200) @@ [approved |-> approved]

\* provision.approved_by = current_user.id; provision.status = "approved"
ApprovedByAdmin(provision, current_user) ==
  [provision EXCEPT !.approved_by = current_user, !.status = "approved"]

approve_provision_request(actor, request_id, vendor_id, failing) ==
  LET auth == AuthStatus({"Admin"}, actor)
      op == "approve_provision"
      frame == UNCHANGED <<provision_requests, notifications>>
      vendor == IF vendor_id \in PersonIds THEN {vendor_id} ELSE {}
  IN IF auth # 200
       THEN resp' = Resp(op, actor, request_id, auth) /\ frame
     ELSE IF ~WellFormedUUID(request_id)
       THEN resp' = Resp(op, actor, request_id, 500) /\ frame
     ELSE IF QueryProvision(request_id) = {}
       THEN resp' = Resp(op, actor, request_id, 404) /\ frame
     ELSE IF vendor_id # "None" /\ ~WellFormedUUID(vendor_id)
       THEN resp' = Resp(op, actor, request_id, 500) /\ frame
     ELSE /\ BagCardinality(notifications) + Cardinality(vendor) <= MaxNotifications
          /\ provision_requests' =
               [provision_requests EXCEPT ![request_id] =
                  [ApprovedByAdmin(@, actor) EXCEPT !.vendor_id = vendor_id]]
          /\ notifications' =
               notifications (+)
                 [r \in {create_notification(v, "vendor_request", TRUE, v \in failing) :
                           v \in vendor} |-> 1]
          /\ resp' = Resp(op, actor, request_id, 200) @@ [vendor_id |-> vendor_id]

\* ------------------------------------------------------------- onboarding
\* The admin routes of onboarding, called by a user the require_admin
\* dependency admitted. Every await of a handler is a point where another
\* request can run; each statement on the connection commits on its own.
MaxApproveCalls == 2
ApproveCallIds == 1..MaxApproveCalls
ReqOnboardingIds == {"R1", "E1", "not-a-uuid"}
EntityTypes == {"staff", "entity"}

\* prefix_map.get(person_type, 'EMP')
prefix_map(person_type) ==
  CASE person_type = "admin" -> "ADM"
    [] person_type = "harvestflow_manager" -> "HFM"
    [] person_type = "flavorcore_manager" -> "FCM"
    [] person_type = "flavorcore_supervisor" -> "FCS"
    [] person_type = "supervisor" -> "SUP"
    [] person_type = "harvesting" -> "HRV"
    [] person_type = "staff" -> "STF"
    [] person_type = "supplier" -> "SUP"
    [] person_type = "vendor" -> "VND"
    [] OTHER -> "EMP"

\* SELECT COUNT(*) FROM person_records WHERE staff_id LIKE 'PREFIX-yymmdd-%'
\* (all requests of one day).
CountStaffIdsLike(prefix) ==
  Cardinality({p \in onboarded_persons : p.staff_id.prefix = prefix})

\* generate_staff_id: f"{prefix}-{timestamp}-{sequence:04d}" as the pair of
\* its prefix and sequence.
generate_staff_id(person_type) ==
  [prefix |-> prefix_map(person_type),
   sequence |-> CountStaffIdsLike(prefix_map(person_type)) + 1]

\* person_records.staff_id is unique: the INSERT of a held staff_id raises.
StaffIdHeld(staff_id) == \E p \in onboarded_persons : p.staff_id = staff_id

\* The row the SELECT ... WHERE id = $1 AND status = 'pending' returns, as a
\* set: its mobile and the person_type of the record to create.
PendingRequestData(request_id, entity_type) ==
  IF entity_type = "staff"
    THEN {[mobile |-> onboarding_requests[r].mobile, person_type |-> "staff"] :
            r \in {r \in DOMAIN onboarding_requests :
                     r = request_id /\ onboarding_requests[r].status = "pending"}}
    ELSE {[mobile |-> onboarding_pending[r].mobile,
           person_type |-> onboarding_pending[r].entity_type] :
            r \in {r \in DOMAIN onboarding_pending :
                     r = request_id /\ onboarding_pending[r].status = "pending"}}

OnboardingResp(op, request_id, entity_type, status) ==
  Resp(op, "adm", request_id, status) @@ [entity_type |-> entity_type]

EndApproveCall(call) == [c \in DOMAIN approve_calls \ {call} |-> approve_calls[c]]

\* approve_onboarding_request up to the first statement of approve_staff_
\* onboarding or approve_entity_onboarding: the connection and the SELECT of
\* the pending request. uuid.UUID of a malformed id raises with the
\* connection open.
approve_onboarding_select(call, request_id, entity_type) ==
  LET op == "approve_onboarding"
  IN /\ call \notin DOMAIN approve_calls
     /\ connections < MaxConnections + MaxApproveCalls
     /\ UNCHANGED <<onboarding_requests, onboarding_pending, onboarded_persons,
                    notifications>>
     /\ IF ~WellFormedUUID(request_id)
          THEN /\ connections' = get_db_connection(connections)
               /\ resp' = OnboardingResp(op, request_id, entity_type, 500)
               /\ UNCHANGED approve_calls
        ELSE IF PendingRequestData(request_id, entity_type) = {}
          THEN /\ connections' = conn_close(get_db_connection(connections))
               /\ resp' = OnboardingResp(op, request_id, entity_type, 404)
               /\ UNCHANGED approve_calls
        ELSE \E request_data \in PendingRequestData(request_id, entity_type) :
               /\ connections' = get_db_connection(connections)
               /\ approve_calls' =
                    [c \in DOMAIN approve_calls \cup {call} |->
                       IF c = call
                         THEN [request_id |-> request_id, entity_type |-> entity_type,
                               request_data |-> request_data, pc |-> "selected",
                               staff_id |-> [prefix |-> "None", sequence |-> 0]]
                         ELSE approve_calls[c]]
               /\ UNCHANGED resp

\* staff_id = await generate_staff_id(conn, ...)
approve_onboarding_generate(call) ==
  /\ call \in DOMAIN approve_calls
  /\ approve_calls[call].pc = "selected"
  /\ approve_calls' =
       [approve_calls EXCEPT ![call] =
          [@ EXCEPT !.pc = "generated",
                    !.staff_id =
                      generate_staff_id(approve_calls[call].request_data.person_type)]]
  /\ UNCHANGED <<onboarding_requests, onboarding_pending, onboarded_persons,
                 notifications, connections, resp>>

\* INSERT INTO person_records ... RETURNING id. A held staff_id raises: the
\* route answers 500 and the connection stays open.
approve_onboarding_insert(call) ==
  /\ call \in DOMAIN approve_calls
  /\ approve_calls[call].pc = "generated"
  /\ LET locals == approve_calls[call]
     IN IF StaffIdHeld(locals.staff_id)
          THEN /\ approve_calls' = EndApproveCall(call)
               /\ resp' = OnboardingResp("approve_onboarding", locals.request_id,
                                         locals.entity_type, 500)
                            @@ [staff_id |-> locals.staff_id]
               /\ UNCHANGED onboarded_persons
          ELSE /\ onboarded_persons' =
                    onboarded_persons \cup
                      {[staff_id |-> locals.staff_id,
                        person_type |-> locals.request_data.person_type,
                        contact_number |-> locals.request_data.mobile]}
               /\ approve_calls' = [approve_calls EXCEPT ![call].pc = "inserted"]
               /\ UNCHANGED resp
  /\ UNCHANGED <<onboarding_requests, onboarding_pending, notifications, connections>>

\* UPDATE ... SET status = 'approved' WHERE id = $3 and conn.close(). Back in
\* the route, get_person_name runs on the closed connection and raises: the
\* answer is 500 although the request is approved.
approve_onboarding_update(call) ==
  /\ call \in DOMAIN approve_calls
  /\ approve_calls[call].pc = "inserted"
  /\ LET locals == approve_calls[call]
     IN /\ IF locals.entity_type = "staff"
             THEN /\ onboarding_requests' =
                       [onboarding_requests EXCEPT ![locals.request_id].status = "approved"]
                  /\ UNCHANGED onboarding_pending
             ELSE /\ onboarding_pending' =
                       [onboarding_pending EXCEPT ![locals.request_id].status = "approved"]
                  /\ UNCHANGED onboarding_requests
        /\ resp' = OnboardingResp("approve_onboarding", locals.request_id,
                                  locals.entity_type, 500)
                     @@ [staff_id |-> locals.staff_id]
  /\ connections' = conn_close(connections)
  /\ approve_calls' = EndApproveCall(call)
  /\ UNCHANGED <<onboarded_persons, notifications>>

\* The rows send_system_notification inserts for the rejection: one warning
\* for each active admin and harvestflow manager.
RejectionNotifications ==
  SetToBag({[SystemNotification(u) EXCEPT !.notification_type = "warning"] :
              u \in RoleUsers({"admin", "harvestflow_manager"})})

\* reject_onboarding_request. For a staff request the UPDATE has three
\* placeholders and is executed with four arguments, which raises.
reject_onboarding_request(request_id, entity_type) ==
  LET op == "reject_onboarding"
      entity_pending ==
        {r \in DOMAIN onboarding_pending :
           r = request_id /\ onboarding_pending[r].status = "pending"}
  IN /\ connections < MaxConnections + MaxApproveCalls
     /\ UNCHANGED <<onboarding_requests, onboarded_persons, approve_calls>>
     /\ IF ~WellFormedUUID(request_id)
          THEN /\ connections' = get_db_connection(connections)
               /\ resp' = OnboardingResp(op, request_id, entity_type, 400)
               /\ UNCHANGED <<onboarding_pending, notifications>>
        ELSE IF entity_type = "staff"
          THEN /\ connections' = get_db_connection(connections)
               /\ resp' = OnboardingResp(op, request_id, entity_type, 500)
               /\ UNCHANGED <<onboarding_pending, notifications>>
        ELSE IF entity_pending = {}
          THEN /\ connections' = conn_close(get_db_connection(connections))
               /\ resp' = OnboardingResp(op, request_id, entity_type, 404)
               /\ UNCHANGED <<onboarding_pending, notifications>>
        ELSE /\ BagCardinality(notifications) + BagCardinality(RejectionNotifications)
                  <= MaxNotifications
             /\ onboarding_pending' =
                  [onboarding_pending EXCEPT ![request_id].status = "rejected"]
             /\ notifications' = notifications (+) RejectionNotifications
             /\ connections' = conn_close(get_db_connection(connections))
             /\ resp' = OnboardingResp(op, request_id, entity_type, 200)

\* delete_user of the admin routes: the row is deleted, not set inactive.
delete_user(staff_id) ==
  /\ IF \E p \in onboarded_persons : p.staff_id = staff_id
       THEN /\ onboarded_persons' = {p \in onboarded_persons : p.staff_id # staff_id}
            /\ resp' = Resp("delete_user", "none", "none", 200) @@ [staff_id |-> staff_id]
       ELSE /\ UNCHANGED onboarded_persons
            /\ resp' = Resp("delete_user", "none", "none", 404) @@ [staff_id |-> staff_id]
  /\ UNCHANGED <<onboarding_requests, onboarding_pending, approve_calls, notifications,
                 connections>>

\* ------------------------------------------------- check-in and check-out
\* The attendance routes, called by a user the require_supervisor dependency
\* admitted. The rows are those of today (timestamp >= CURRENT_DATE); the
\* buffered records of the offline sync carry an earlier date. A row is
\* [id, person_id, check_out_time], ids in the order of the inserts, which
\* is the order of the timestamps.
MaxCheckins == 3
MaxAttendanceCalls == 2
AttendanceCallIds == 1..MaxAttendanceCalls
CheckinPersonIds == {"drvA", "drvB", "ghost", "not-a-uuid"}

\* SELECT ... WHERE person_id = $1 AND timestamp >= CURRENT_DATE AND
\* check_out_time IS NULL
OpenCheckins(person_id) ==
  {row \in checkin_logs : row.person_id = person_id /\ row.check_out_time = "None"}

\* ... ORDER BY timestamp DESC LIMIT 1, as a set.
LatestOpenCheckin(person_id) ==
  {row \in OpenCheckins(person_id) : \A other \in OpenCheckins(person_id) : other.id <= row.id}

AttendanceResp(op, person_id, status) == Resp(op, "none", "none", status) @@ [person_id |-> person_id]

EndAttendanceCall(call) ==
  [c \in DOMAIN attendance_calls \ {call} |-> attendance_calls[c]]

BeginAttendanceCall(call, op, person_id, checkin_id) ==
  [c \in DOMAIN attendance_calls \cup {call} |->
     IF c = call THEN [op |-> op, person_id |-> person_id, checkin_id |-> checkin_id]
     ELSE attendance_calls[c]]

\* check_in_attendance up to the INSERT: the connection and the query for an
\* open check-in. uuid.UUID of a malformed person_id raises ValueError with
\* the connection open.
check_in_select(call, person_id) ==
  /\ call \notin DOMAIN attendance_calls
  /\ connections < MaxConnections + MaxAttendanceCalls
  /\ UNCHANGED checkin_logs
  /\ IF ~WellFormedUUID(person_id)
       THEN /\ connections' = get_db_connection(connections)
            /\ resp' = AttendanceResp("check_in", person_id, 400)
            /\ UNCHANGED attendance_calls
     ELSE IF OpenCheckins(person_id) # {}
       THEN /\ connections' = conn_close(get_db_connection(connections))
            /\ resp' = AttendanceResp("check_in", person_id, 400)
            /\ UNCHANGED attendance_calls
     ELSE /\ connections' = get_db_connection(connections)
          /\ attendance_calls' = BeginAttendanceCall(call, "check_in", person_id, 0)
          /\ UNCHANGED resp

\* INSERT INTO attendance_logs ... and conn.close(). person_id references
\* person_records.id: the INSERT of an unknown person raises and the
\* connection stays open.
check_in_insert(call) ==
  /\ call \in DOMAIN attendance_calls
  /\ attendance_calls[call].op = "check_in"
  /\ LET person_id == attendance_calls[call].person_id
     IN IF person_id \notin PersonIds
          THEN /\ resp' = AttendanceResp("check_in", person_id, 500)
               /\ UNCHANGED <<checkin_logs, connections>>
          ELSE /\ Cardinality(checkin_logs) < MaxCheckins
               /\ checkin_logs' =
                    checkin_logs \cup
                      {[id |-> Cardinality(checkin_logs) + 1, person_id |-> person_id,
                        check_out_time |-> "None"]}
               /\ connections' = conn_close(connections)
               /\ resp' = AttendanceResp("check_in", person_id, 200)
  /\ attendance_calls' = EndAttendanceCall(call)

\* check_out_attendance up to the UPDATE: the connection and the query for
\* the latest open check-in.
check_out_select(call, person_id) ==
  /\ call \notin DOMAIN attendance_calls
  /\ connections < MaxConnections + MaxAttendanceCalls
  /\ UNCHANGED checkin_logs
  /\ IF ~WellFormedUUID(person_id)
       THEN /\ connections' = get_db_connection(connections)
            /\ resp' = AttendanceResp("check_out", person_id, 400)
            /\ UNCHANGED attendance_calls
     ELSE IF LatestOpenCheckin(person_id) = {}
       THEN /\ connections' = conn_close(get_db_connection(connections))
            /\ resp' = AttendanceResp("check_out", person_id, 404)
            /\ UNCHANGED attendance_calls
     ELSE \E checkin \in LatestOpenCheckin(person_id) :
            /\ connections' = get_db_connection(connections)
            /\ attendance_calls' = BeginAttendanceCall(call, "check_out", person_id, checkin.id)
            /\ UNCHANGED resp

\* UPDATE attendance_logs SET check_out_time = $1 ... WHERE id = $4 and
\* conn.close().
check_out_update(call) ==
  /\ call \in DOMAIN attendance_calls
  /\ attendance_calls[call].op = "check_out"
  /\ checkin_logs' =
       {IF row.id = attendance_calls[call].checkin_id
          THEN [row EXCEPT !.check_out_time = "now"] ELSE row : row \in checkin_logs}
  /\ connections' = conn_close(connections)
  /\ resp' = AttendanceResp("check_out", attendance_calls[call].person_id, 200)
               @@ [attendance_id |-> attendance_calls[call].checkin_id]
  /\ attendance_calls' = EndAttendanceCall(call)

\* ------------------------------------------------------------ behaviours
\* A request that is rejected before its body is used (authentication, role,
\* dispatch_id, dispatch lookup) is the same step whatever its body holds, so
\* one body stands for all of them.
PositionsOf(actor, dispatch_id) ==
  IF /\ AuthStatus({"driver"}, actor) = 200
     /\ WellFormedUUID(dispatch_id)
     /\ QueryDispatchToLog(dispatch_id, actor) # {}
    THEN Positions
    ELSE {CHOOSE pos \in Positions : GeofenceStatus(pos) = "inside"}

BatchesOf(actor, dispatch_id) ==
  IF AuthStatus({"driver"}, actor) = 200 /\ WellFormedUUID(dispatch_id)
    THEN Batches
    ELSE {<<>>}

Next ==
  \/ \E actor \in Actors, dispatch_id \in ReqDispatchIds :
       start_gps_tracking(actor, dispatch_id)
  \/ \E actor \in Actors, dispatch_id \in ReqDispatchIds :
       \E pos \in PositionsOf(actor, dispatch_id) :
       \E failing \in SmsFailuresOf(pos), db_fault \in DbFaultsOf(pos) :
         log_gps_location(actor, dispatch_id, pos, failing, db_fault)
  \/ \E actor \in Actors, dispatch_id \in ReqDispatchIds :
       \E locations \in BatchesOf(actor, dispatch_id) :
       sync_gps_batch(actor, dispatch_id, locations)
  \/ \E actor \in Actors, dispatch_id \in ReqDispatchIds :
       complete_dispatch(actor, dispatch_id)

Spec == Init /\ [][Next]_vars

\* The attendance store under any sequence of batch uploads.
NextAttendance ==
  \E attendance_records \in AttendanceBatches, device_id \in DeviceIds :
    sync_attendance_batch(attendance_records, device_id)

SpecAttendance == Init /\ [][NextAttendance]_vars

\* The attendance store under batch uploads that run at the same time.
NextSyncCalls ==
  \/ \E call \in SyncCallIds, attendance_records \in SyncBatches,
        device_id \in DeviceIds :
       sync_attendance_batch_start(call, attendance_records, device_id)
         /\ UNCHANGED frame_sync
  \/ \E call \in SyncCallIds : sync_attendance_batch_record(call) /\ UNCHANGED frame_sync
  \/ \E call \in SyncCallIds : sync_attendance_batch_commit(call) /\ UNCHANGED frame_sync

SpecSyncCalls == Init /\ [][NextSyncCalls]_vars

\* The onboarding tables under approvals that run at the same time,
\* rejections and deletions of users.
StaffIds == {[prefix |-> p, sequence |-> n] : p \in {"STF", "SUP"}, n \in 1..2}

NextOnboarding ==
  \/ \E call \in ApproveCallIds, request_id \in ReqOnboardingIds,
        entity_type \in EntityTypes :
       approve_onboarding_select(call, request_id, entity_type)
         /\ UNCHANGED frame_onboarding
  \/ \E call \in ApproveCallIds :
       approve_onboarding_generate(call) /\ UNCHANGED frame_onboarding
  \/ \E call \in ApproveCallIds :
       approve_onboarding_insert(call) /\ UNCHANGED frame_onboarding
  \/ \E call \in ApproveCallIds :
       approve_onboarding_update(call) /\ UNCHANGED frame_onboarding
  \/ \E request_id \in ReqOnboardingIds, entity_type \in EntityTypes :
       reject_onboarding_request(request_id, entity_type) /\ UNCHANGED frame_onboarding
  \/ \E staff_id \in StaffIds : delete_user(staff_id) /\ UNCHANGED frame_onboarding

SpecOnboarding == Init /\ [][NextOnboarding]_vars

\* The check-ins of today under requests that run at the same time.
NextCheckin ==
  \/ \E call \in AttendanceCallIds, person_id \in CheckinPersonIds :
       check_in_select(call, person_id) /\ UNCHANGED frame_checkin
  \/ \E call \in AttendanceCallIds : check_in_insert(call) /\ UNCHANGED frame_checkin
  \/ \E call \in AttendanceCallIds, person_id \in CheckinPersonIds :
       check_out_select(call, person_id) /\ UNCHANGED frame_checkin
  \/ \E call \in AttendanceCallIds : check_out_update(call) /\ UNCHANGED frame_checkin

SpecCheckin == Init /\ [][NextCheckin]_vars

\* The notification store under any sequence of system notifications.
NextNotify ==
  \E target_roles \in TargetRoleLists, target_users \in TargetUserLists,
     send_sms \in BOOLEAN, send_whatsapp \in BOOLEAN :
    \E failing \in SendFailuresOf(ResolveUserIds(target_roles, target_users),
                                  send_sms, send_whatsapp) :
    \E order \in OrdersOf(ResolveUserIds(target_roles, target_users),
                          send_sms, send_whatsapp, failing) :
      send_system_notification(target_roles, target_users, send_sms, send_whatsapp,
                               order, failing)

SpecNotify == Init /\ [][NextNotify]_vars

\* The provision requests under any sequence of calls of the three routes.
NextProvisions ==
  \/ \E actor \in ProvisionActors :
       \E failing \in SmsFailuresTo(ActiveOfType("flavorcore_manager")) :
         create_provision_request(actor, failing) /\ UNCHANGED frame_provisions
  \/ \E actor \in ProvisionActors, request_id \in ReqProvisionIds, approved \in BOOLEAN :
       \E failing \in SmsFailuresTo(ActiveOfType("admin")) :
         review_provision_request(actor, request_id, approved, failing)
           /\ UNCHANGED frame_provisions
  \/ \E actor \in ProvisionActors, request_id \in ReqProvisionIds, vendor_id \in VendorIds :
       \E failing \in SmsFailuresTo({vendor_id} \cap PersonIds) :
         approve_provision_request(actor, request_id, vendor_id, failing)
           /\ UNCHANGED frame_provisions

SpecProvisions == Init /\ [][NextProvisions]_vars

TypeOK ==
  /\ \A d \in DispatchIds :
       /\ dispatches[d].trip_status \in {"pending", "in_transit", "delivered"}
       /\ dispatches[d].gps_tracking_active \in BOOLEAN
  /\ BagCardinality(gps_logs) <= MaxLogs
  /\ BagCardinality(attendance_logs) <= MaxAttRows


\* ---------------------------------------------------------------- claims
\* The request of a step is read from resp': only the handler named by
\* resp'.op sets it.
IsDriver(actor) ==
  actor \in PersonIds /\ person_records[actor].person_type = "driver"

\* C1: in every reachable state, gps_tracking_active of a dispatch is true
\* only if its trip_status is "in_transit".
C1_TrackingOnlyInTransit ==
  \A d \in DOMAIN dispatches :
    dispatches[d].gps_tracking_active => dispatches[d].trip_status = "in_transit"

\* C1 witness: a dispatch that was started, written to, completed and is now
\* reported delivered with tracking switched off.
C1_Witness ==
  /\ resp.op = "complete" /\ resp.status = 200
  /\ dispatches["D1"].trip_status = "delivered"
  /\ ~dispatches["D1"].gps_tracking_active
  /\ gps_logs # EmptyBag

\* C2: start_tracking succeeds only from pending; on an unknown dispatch an
\* authorised caller gets 404; on a dispatch that is in_transit or delivered
\* the call fails and leaves the dispatch unchanged.
C2_StartOnlyFromPending ==
  [][ resp'.op = "start_tracking" =>
        /\ (/\ resp'.dispatch_id = "Dx"
            /\ AuthStatus({"driver", "harvestflow_manager"}, resp'.actor) = 200)
             => resp'.status = 404
        /\ (/\ resp'.dispatch_id \in DOMAIN dispatches
            /\ dispatches[resp'.dispatch_id].trip_status # "pending")
             => /\ resp'.status >= 400
                /\ dispatches' = dispatches ]_vars

\* C3: delivered is terminal and trip_status only moves
\* pending -> in_transit -> delivered.
C3_DeliveredTerminal ==
  [][ \A d \in DOMAIN dispatches :
        \/ dispatches'[d].trip_status = dispatches[d].trip_status
        \/ /\ dispatches[d].trip_status = "pending"
           /\ dispatches'[d].trip_status = "in_transit"
        \/ /\ dispatches[d].trip_status = "in_transit"
           /\ dispatches'[d].trip_status = "delivered" ]_vars

\* C4: log_location by the assigned driver on a pending or delivered dispatch
\* fails and writes no log, alert or notification row.
C4_LogGatedByLifecycle ==
  [][ (/\ resp'.op = "log_location"
       /\ resp'.dispatch_id \in DOMAIN dispatches
       /\ resp'.actor = dispatches[resp'.dispatch_id].driver_id
       /\ dispatches[resp'.dispatch_id].trip_status \in {"pending", "delivered"})
        => /\ resp'.status >= 400
           /\ UNCHANGED <<gps_logs, geofence_alerts, notifications>> ]_vars

\* The gps_tracking_logs rows of one dispatch.
LogsOf(logs, d) ==
  [r \in {x \in BagToSet(logs) : x.dispatch_id = d} |-> logs[r]]

\* C5: while a dispatch is delivered, neither ingest path adds a
\* gps_tracking_logs row for it.
C5_NoLogAfterDelivery ==
  [][ \A d \in DOMAIN dispatches :
        dispatches[d].trip_status = "delivered"
          => LogsOf(gps_logs', d) = LogsOf(gps_logs, d) ]_vars

\* C6: log_location by a driver other than the dispatch's driver fails with
\* 404 and writes no log, alert or notification row, in every dispatch state.
C6_LogOwnership ==
  [][ (/\ resp'.op = "log_location"
       /\ resp'.dispatch_id \in DOMAIN dispatches
       /\ IsDriver(resp'.actor)
       /\ resp'.actor # dispatches[resp'.dispatch_id].driver_id)
        => /\ resp'.status = 404
           /\ UNCHANGED <<gps_logs, geofence_alerts, notifications>> ]_vars

\* C6 witness: driver B was refused on driver A's dispatch while it is
\* in transit.
C6_Witness ==
  /\ resp.op = "log_location" /\ resp.actor = "drvB" /\ resp.dispatch_id = "D1"
  /\ resp.status = 404
  /\ dispatches["D1"].driver_id = "drvA"
  /\ dispatches["D1"].trip_status = "in_transit"

\* C7: complete by the assigned driver on a dispatch that is not in_transit
\* fails and leaves the dispatch unchanged.
C7_CompleteOnlyFromInTransit ==
  [][ (/\ resp'.op = "complete"
       /\ resp'.dispatch_id \in DOMAIN dispatches
       /\ resp'.actor = dispatches[resp'.dispatch_id].driver_id
       /\ dispatches[resp'.dispatch_id].trip_status # "in_transit")
        => /\ resp'.status >= 400
           /\ dispatches' = dispatches ]_vars

\* C8: complete by anyone but the assigned driver fails and leaves
\* trip_status and gps_tracking_active of the dispatch unchanged.
C8_CompleteOwnership ==
  [][ (/\ resp'.op = "complete"
       /\ resp'.dispatch_id \in DOMAIN dispatches
       /\ resp'.actor # dispatches[resp'.dispatch_id].driver_id)
        => /\ resp'.status >= 400
           /\ dispatches'[resp'.dispatch_id].trip_status
                = dispatches[resp'.dispatch_id].trip_status
           /\ dispatches'[resp'.dispatch_id].gps_tracking_active
                = dispatches[resp'.dispatch_id].gps_tracking_active ]_vars

\* C8 witness: driver B was refused completing driver A's dispatch, which is
\* still in transit and tracked.
C8_Witness ==
  /\ resp.op = "complete" /\ resp.actor = "drvB" /\ resp.dispatch_id = "D1"
  /\ resp.status = 404
  /\ dispatches["D1"].trip_status = "in_transit"
  /\ dispatches["D1"].gps_tracking_active

\* C9: a driver who is not the dispatch's assigned driver is refused by
\* start_tracking and does not change the dispatch.
C9_StartOwnership ==
  [][ (/\ resp'.op = "start_tracking"
       /\ resp'.dispatch_id \in DOMAIN dispatches
       /\ IsDriver(resp'.actor)
       /\ resp'.actor # dispatches[resp'.dispatch_id].driver_id)
        => /\ resp'.status >= 400
           /\ dispatches' = dispatches ]_vars

\* C10: a successful log_location reports "inside" iff one of the two
\* distances is <= R, "outside" iff both are > R, and "outside" exactly when
\* the alert branch was taken (a geofence_alerts row was added).
C10_GeofenceClassification ==
  [][ (resp'.op = "log_location" /\ resp'.status = 200) =>
        LET pos == [latitude |-> resp'.latitude, longitude |-> resp'.longitude]
            R == GPS_GEOFENCE_RADIUS_KM
        IN /\ resp'.geofence_status = "inside"
                <=> (FloatLe(dist_from_farm(pos), R) \/ FloatLe(dist_from_processing(pos), R))
           /\ resp'.geofence_status = "outside"
                <=> (FloatGt(dist_from_farm(pos), R) /\ FloatGt(dist_from_processing(pos), R))
           /\ resp'.geofence_status = "outside"
                <=> geofence_alerts' # geofence_alerts ]_vars


\* The position of the ping a log_location response answers.
PingOf(r) == [latitude |-> r.latitude, longitude |-> r.longitude]

\* A step that is a successful log_location of a ping outside both zones.
SuccessfulOutsidePing ==
  /\ resp'.op = "log_location" /\ resp'.status = 200
  /\ OutsideGeofence(PingOf(resp'))

\* The notification rows of one recipient.
NotificationsOf(rows, p) ==
  [r \in {x \in BagToSet(rows) : x.recipient_id = p} |-> rows[r]]

\* C11: a step adds a geofence_alerts row iff it is a successful log_location
\* of a ping outside both zones, and then exactly the route_deviation alert
\* of that ping; so alerts and successful outside live pings stay equal in
\* number.
C11_OneAlertPerOutsidePing ==
  [][ IF SuccessfulOutsidePing
        THEN geofence_alerts' =
               geofence_alerts
                 (+) SetToBag({RouteDeviationAlert(resp'.dispatch_id, PingOf(resp'))})
        ELSE geofence_alerts' = geofence_alerts ]_vars

\* C12: a successful outside log_location adds exactly one geofence_alert
\* notification for every active harvestflow_manager, flavorcore_manager or
\* admin, and none for anybody else.
C12_NotifyActiveManagers ==
  [][ SuccessfulOutsidePing =>
        LET new == notifications' (-) notifications
        IN /\ notifications' = notifications (+) new
           /\ \A r \in BagToSet(new) :
                r.notification_type = "geofence_alert" /\ r.recipient_id \in PersonIds
           /\ \A p \in PersonIds :
                BagCardinality(NotificationsOf(new, p)) =
                  IF /\ person_records[p].status = "active"
                     /\ person_records[p].person_type \in
                          {"harvestflow_manager", "flavorcore_manager", "admin"}
                    THEN 1 ELSE 0 ]_vars

\* C12 witness: an outside ping was answered 200; the two active managers
\* hold a geofence_alert notification and the inactive admin holds none.
C12_Witness ==
  /\ resp.op = "log_location" /\ resp.status = 200
  /\ OutsideGeofence(PingOf(resp))
  /\ BagCardinality(NotificationsOf(notifications, "hfm")) = 1
  /\ BagCardinality(NotificationsOf(notifications, "fcm")) = 1
  /\ BagCardinality(NotificationsOf(notifications, "adm")) = 0

\* C13: a log_location call that ends in failure leaves no row it wrote.
C13_LogLocationAtomic ==
  [][ (resp'.op = "log_location" /\ resp'.status >= 400)
        => UNCHANGED <<gps_logs, geofence_alerts, notifications>> ]_vars

\* C14: when the SMS send of a requested notification raises, the call still
\* succeeds, the recipient's row is created and its sent_via_sms is false;
\* sent_via_sms is true only if the send was attempted and did not raise.
C14_SmsBestEffort ==
  [][ SuccessfulOutsidePing =>
        LET new == notifications' (-) notifications
        IN /\ \A m \in resp'.sms_raised :
                /\ BagCardinality(NotificationsOf(new, m)) = 1
                /\ \A r \in BagToSet(NotificationsOf(new, m)) : ~r.sent_via_sms
           /\ \A r \in BagToSet(new) :
                r.sent_via_sms =>
                  /\ twilio_client
                  /\ person_records[r.recipient_id].contact_number
                  /\ r.recipient_id \notin resp'.sms_raised ]_vars

\* C14 witness: with Twilio configured, the send to the harvestflow manager
\* raised; the ping was answered 200 and the manager's row is stored unsent.
C14_Witness ==
  /\ twilio_client
  /\ resp.op = "log_location" /\ resp.status = 200
  /\ resp.sms_raised = {"hfm"}
  /\ BagIn([recipient_id |-> "hfm", notification_type |-> "geofence_alert",
            sent_via_sms |-> FALSE], notifications)


\* The indices of a batch whose record parses (person_id is a UUID and the
\* timestamp is ISO 8601), and the natural key of the record at an index.
ParsedAt(records) ==
  {i \in 1..Len(records) :
     WellFormedUUID(records[i].person_id) /\ fromisoformat_ok(records[i].timestamp)}

NaturalKey(records, i, device_id) ==
  [person_id |-> records[i].person_id,
   timestamp |-> fromisoformat[records[i].timestamp],
   device_id |-> device_id]

\* The parsed records of a batch whose natural key is not stored yet.
NewAt(records, device_id) ==
  {i \in ParsedAt(records) : ~BagIn(NaturalKey(records, i, device_id), attendance_logs)}

\* C15: a successful sync_attendance_batch inserts exactly the records whose
\* {person_id, timestamp, device_id} was not stored before the call and
\* counts them, a failed one inserts nothing; and a batch submitted again
\* right after itself from the same device inserts nothing and reports
\* synced_count 0.
C15_AttendanceSyncIdempotent ==
  [][ resp'.op = "sync_attendance" =>
        LET records == resp'.attendance_records
            device_id == resp'.device_id
            result == resp'.result
            new == attendance_logs' (-) attendance_logs
        IN /\ attendance_logs' = attendance_logs (+) new
           /\ result.success =>
                /\ result.synced_count = BagCardinality(new)
                /\ \A i \in ParsedAt(records) :
                     LET key == NaturalKey(records, i, device_id)
                     IN CopiesIn(key, new) =
                          Cardinality({j \in NewAt(records, device_id) :
                                         NaturalKey(records, j, device_id) = key})
                /\ \A row \in BagToSet(new) :
                     \E i \in NewAt(records, device_id) :
                       row = NaturalKey(records, i, device_id)
           /\ ~result.success => BagCardinality(new) = 0
           /\ ( /\ resp.op = "sync_attendance"
                /\ resp.attendance_records = records
                /\ resp.device_id = device_id )
                => /\ attendance_logs' = attendance_logs
                   /\ result.synced_count = 0 ]_vars

\* C15 witness: a batch of two valid records of different persons was
\* answered with synced_count 0 and no failure while both rows are stored.
C15_Witness ==
  /\ resp.op = "sync_attendance"
  /\ Len(resp.attendance_records) = 2
  /\ resp.attendance_records[1].person_id = "drvA"
  /\ resp.attendance_records[2].person_id = "drvB"
  /\ resp.result.success
  /\ resp.result.synced_count = 0 /\ resp.result.failed_count = 0
  /\ \A i \in 1..2 :
       BagIn(NaturalKey(resp.attendance_records, i, resp.device_id), attendance_logs)

\* C16: no two attendance_logs rows share {person_id, timestamp, device_id}.
C16_NoDuplicateKeys ==
  \A row \in BagToSet(attendance_logs) : CopiesIn(row, attendance_logs) = 1

\* A batch with exactly one malformed person_id whose other records are
\* valid, of known persons and not stored yet.
OneMalformedRestNew(records, device_id) ==
  /\ Cardinality({i \in 1..Len(records) : ~WellFormedUUID(records[i].person_id)}) = 1
  /\ \A i \in 1..Len(records) :
       WellFormedUUID(records[i].person_id) =>
         /\ records[i].person_id \in PersonIds
         /\ i \in NewAt(records, device_id)

\* C17: a batch of n records with one malformed person_id and n-1 new valid
\* records succeeds with synced_count n-1, failed_count 1, failed_records
\* holding exactly the malformed record with an error, and n-1 rows stored.
C17_PartialFailureIsolation ==
  [][ ( /\ resp'.op = "sync_attendance"
        /\ OneMalformedRestNew(resp'.attendance_records, resp'.device_id) ) =>
        LET records == resp'.attendance_records
            result == resp'.result
            n == Len(records)
        IN /\ result.success
           /\ result.synced_count = n - 1
           /\ result.failed_count = 1
           /\ Len(result.failed_records) = 1
           /\ ~WellFormedUUID(result.failed_records[1].record.person_id)
           /\ \E i \in 1..n : result.failed_records[1].record = records[i]
           /\ "error" \in DOMAIN result.failed_records[1]
           /\ BagCardinality(attendance_logs') = BagCardinality(attendance_logs) + n - 1
           /\ \A i \in ParsedAt(records) :
                BagIn(NaturalKey(records, i, resp'.device_id), attendance_logs') ]_vars

\* C17 witness: a batch of two with one malformed person_id was answered
\* with synced_count 1 and failed_count 1, and the valid record is stored.
C17_Witness ==
  /\ resp.op = "sync_attendance"
  /\ Len(resp.attendance_records) = 2
  /\ resp.result.success
  /\ resp.result.synced_count = 1 /\ resp.result.failed_count = 1
  /\ BagCardinality(attendance_logs) = 1

\* C18: when the commit fails (a new row references no person), the call
\* reports success false, synced_count 0 and the error, and the store is as
\* it was before the call.
C18_CommitFailureRollsBack ==
  [][ resp'.op = "sync_attendance" =>
        LET records == resp'.attendance_records
            result == resp'.result
        IN /\ (\E i \in NewAt(records, resp'.device_id) :
                 records[i].person_id \notin PersonIds) => ~result.success
           /\ ~result.success =>
                /\ attendance_logs' = attendance_logs
                /\ result.synced_count = 0
                /\ "error" \in DOMAIN result ]_vars

\* C18 witness: a batch holding a new valid record of a known person and a
\* record of no person failed; the store holds an earlier row and not the
\* valid record of the failed batch.
C18_Witness ==
  /\ resp.op = "sync_attendance"
  /\ ~resp.result.success
  /\ attendance_logs # EmptyBag
  /\ \E i \in NewAt(resp.attendance_records, resp.device_id) :
       resp.attendance_records[i].person_id \in PersonIds

\* C19: in a successful call synced_count is the number of rows inserted,
\* failed_count the number of records that do not parse, and together with
\* the records skipped as stored duplicates they add up to the batch length.
C19_ThreeOutcomes ==
  [][ (resp'.op = "sync_attendance" /\ resp'.result.success) =>
        LET records == resp'.attendance_records
            result == resp'.result
            skipped == ParsedAt(records) \ NewAt(records, resp'.device_id)
        IN /\ result.synced_count =
                BagCardinality(attendance_logs') - BagCardinality(attendance_logs)
           /\ result.failed_count = Len(records) - Cardinality(ParsedAt(records))
           /\ result.failed_count = Len(result.failed_records)
           /\ result.synced_count + result.failed_count + Cardinality(skipped)
                = Len(records) ]_vars

\* C19 witness: a batch of two was answered with one record synced, none
\* failed: the other one was skipped as a duplicate.
C19_Witness ==
  /\ resp.op = "sync_attendance"
  /\ Len(resp.attendance_records) = 2
  /\ resp.result.success
  /\ resp.result.synced_count = 1 /\ resp.result.failed_count = 0
  /\ resp.attendance_records[1].person_id # resp.attendance_records[2].person_id

\* C20: a successful sync-batch adds one row per well-formed record, stored
\* or not, each with is_offline_queued and synced_at set, and reports their
\* number; a row with is_offline_queued false is added by log-location only.
C20_GpsBatchNoDedup ==
  [][ LET new == gps_logs' (-) gps_logs
      IN /\ gps_logs' = gps_logs (+) new
         /\ \A row \in BagToSet(new) :
              ~row.is_offline_queued => resp'.op = "log_location"
         /\ (resp'.op = "sync_batch" /\ resp'.status = 200 /\ resp'.success) =>
              LET locations == resp'.locations
                  parsed == {i \in 1..Len(locations) :
                               fromisoformat_ok(locations[i].timestamp)}
              IN /\ resp'.synced_count = Cardinality(parsed)
                 /\ BagCardinality(new) = Cardinality(parsed)
                 /\ \A row \in BagToSet(new) :
                      /\ row.is_offline_queued /\ row.synced_at
                      /\ row.dispatch_id = resp'.dispatch_id
                      /\ CopiesIn(row, new) =
                           Cardinality({i \in parsed :
                                          /\ locations[i].latitude = row.latitude
                                          /\ locations[i].longitude = row.longitude}) ]_vars

\* C20 witness: a batch of one record was answered with synced_count 1 and
\* the store holds the same offline row twice.
C20_Witness ==
  /\ resp.op = "sync_batch" /\ resp.status = 200 /\ resp.success
  /\ Len(resp.locations) = 1
  /\ resp.synced_count = 1
  /\ \E row \in BagToSet(gps_logs) :
       row.is_offline_queued /\ CopiesIn(row, gps_logs) = 2


\* C21: a sync-batch step leaves geofence_alerts and notifications as they
\* were, whatever the positions of the batch.
C21_SyncBatchNoGeofence ==
  [][ resp'.op = "sync_batch" => UNCHANGED <<geofence_alerts, notifications>> ]_vars

\* C21 witness: a batch with a position outside both zones was synced and
\* stored while no alert and no notification exists.
C21_Witness ==
  /\ resp.op = "sync_batch" /\ resp.status = 200 /\ resp.success
  /\ resp.synced_count >= 1
  /\ \E i \in 1..Len(resp.locations) : OutsideGeofence(resp.locations[i])
  /\ \E row \in BagToSet(gps_logs) : row.is_offline_queued /\ OutsideGeofence(row)
  /\ geofence_alerts = EmptyBag /\ notifications = EmptyBag

\* C22: the result of a sync-batch call whose batch holds a malformed record
\* reports the number of failed records and lists that record as failed.
C22_SyncBatchReportsFailures ==
  [][ ( /\ resp'.op = "sync_batch" /\ resp'.status = 200
        /\ \E i \in 1..Len(resp'.locations) :
             ~fromisoformat_ok(resp'.locations[i].timestamp) ) =>
        /\ "synced_count" \in DOMAIN resp'
        /\ "failed_count" \in DOMAIN resp'
        /\ "failed_records" \in DOMAIN resp'
        /\ resp'.failed_count =
             Cardinality({i \in 1..Len(resp'.locations) :
                            ~fromisoformat_ok(resp'.locations[i].timestamp)})
        /\ \A i \in 1..Len(resp'.locations) :
             ~fromisoformat_ok(resp'.locations[i].timestamp) =>
               \E j \in 1..Len(resp'.failed_records) :
                 resp'.failed_records[j].record = resp'.locations[i] ]_vars


\* The persons a send_system_notification call addresses: the active persons
\* of a target role and the persons whose id is listed in target_users.
RecipientsOf(target_roles, target_users) ==
  {p \in PersonIds :
     \/ person_records[p].status = "active" /\ person_records[p].person_type \in target_roles
     \/ \E i \in 1..Len(target_users) :
          WellFormedUUID(target_users[i]) /\ uuid_UUID(target_users[i]) = p}

\* Every id of target_users is the id of a person.
TargetsExist(target_users) ==
  \A i \in 1..Len(target_users) :
    WellFormedUUID(target_users[i]) /\ uuid_UUID(target_users[i]) \in PersonIds

C29_TwoStageApproval ==
  [][ \A r \in DOMAIN provision_requests :
        /\ provision_requests'[r].status = "approved"
             => provision_requests'[r].reviewed_by_fc_manager # "None"
        /\ provision_requests[r].status = "rejected"
             => provision_requests'[r].status # "approved" ]_vars


\* C26: of two sync_attendance_batch calls that run at the same time with
\* the same record, only one inserts it: a commit never stores a row whose
\* key (person_id, timestamp, device_id) is stored already.
C26_ConcurrentSyncInsertsOnce ==
  [][ \A row \in BagToSet(attendance_logs') :
        CopiesIn(row, attendance_logs') > CopiesIn(row, attendance_logs)
          => CopiesIn(row, attendance_logs) = 0 ]_vars


\* The person_records rows created from one request's data.
PersonsOf(mobile) == {p \in onboarded_persons : p.contact_number = mobile}

=============================================================================
